---- MODULE Spec2Model ----
(***************************************************************************)
(* A model of jvmparser.py: the decoder of the JVM class-file format       *)
(* (parse_class_file and the sub-parsers it drives) and the index-based    *)
(* lookups on the decoded class (from_cp, get_name_of_class, from_bsm).    *)
(*                                                                         *)
(* A byte is an integer 0..255, a byte string is a sequence of bytes, a    *)
(* stream is a byte string with a cursor (the count of bytes consumed).    *)
(* A Python exception is a record [exc, msg]; "no exception" and Python's   *)
(* None are the empty sequence, a present value x is <<x>>. A 32-bit value  *)
(* is kept as its two 16-bit halves <<hi, lo>>: TLC's integers are 32-bit   *)
(* signed and a u4 field does not fit one.                                  *)
(*                                                                         *)
(* The fixed-width readers parse_i1/i2/i4/f4 (utils.py) and the tables of  *)
(* jvmconsts.py are not part of the source at hand; they are modelled from *)
(* the specification's Primitive Reader (section 4.1): a reader consumes   *)
(* exactly its width and fails with TruncatedInput when fewer bytes        *)
(* remain. The raw reads f.read(n) are in the source and are Python's:     *)
(* they return the bytes that remain when fewer than n do.                 *)
(***************************************************************************)
EXTENDS Integers, Sequences, FiniteSets, TLC

VARIABLES
    given,            \* what the input's file declares, and whether the input is cut short
    input,            \* the bytes of the opened file
    pos,              \* cursor of f
    pc,               \* the statement of parse_class_file to run next
    exc,              \* the exception that ended parse_class_file, or None
    version,          \* local: (major, minor), or None
    constant_pool_count, \* local, or None
    constant_pool,    \* local: the decoded pool, or None
    header,           \* locals: access_flags, this_class, super_class, or None
    clazz,            \* local: the JVMClass under construction, or None
    methods_count,    \* local, or None
    methods,          \* local: the methods decoded so far
    attributes_count, \* local, or None
    returned,         \* what parse_class_file returned to its caller, or None
    attrLog,          \* one record per attribute envelope decoded so far
    query             \* the last lookup made on the returned class, or None

vars == <<given, input, pos, pc, exc, version, constant_pool_count, constant_pool, header, clazz,
          methods_count, methods, attributes_count, returned, attrLog, query>>

(***************************************************************************)
(* Bounds of the enumerated inputs.                                        *)
(***************************************************************************)
MaxIndex == 2      \* lookups reach MaxIndex below 0 and MaxIndex beyond the pool's size
MaxPad == 1        \* bytes an attribute declares beyond what its payload needs
MaxNest == 2       \* Code payloads nested inside one another in an input
MaxCount == 1      \* interfaces / fields / exception-table counts in an input
MaxBsm == 2        \* BootstrapMethods attributes at the top level of an input

None == <<>>
Some(x) == <<x>>
Get(o) == o[1]

Min(a, b) == IF a <= b THEN a ELSE b

Bytes == 0 .. 255

ExcRec(e, m) == [exc |-> e, msg |-> m]

(***************************************************************************)
(* Python values stored under a pool entry's 'bytes' key: a bytes object   *)
(* (Utf8), an int (Integer) or a float (Float).                            *)
(***************************************************************************)
PyBytes(s) == [t |-> "bytes", v |-> s]
PyInt(n) == [t |-> "int", v |-> n]
PyFloat(sign, exponent, mantissa) == [t |-> "float", v |-> <<sign, exponent, mantissa>>]

(***************************************************************************)
(* A local name bound to a value: Only({body : r \in {value}}) is body     *)
(* with r standing for the value, computed once.                           *)
(***************************************************************************)
Only(S) == CHOOSE x \in S : TRUE

(***************************************************************************)
(* Primitive Reader: big-endian fixed-width values from (data, p).         *)
(* Result: [exc, val, pos].                                                *)
(***************************************************************************)
Truncated == Some(ExcRec("TruncatedInput", ""))

parse_i1(data, p) ==
    IF p + 1 > Len(data) THEN [exc |-> Truncated, val |-> 0, pos |-> Len(data)]
    ELSE [exc |-> None, val |-> data[p + 1], pos |-> p + 1]

parse_i2(data, p) ==
    IF p + 2 > Len(data) THEN [exc |-> Truncated, val |-> 0, pos |-> Len(data)]
    ELSE [exc |-> None, val |-> 256 * data[p + 1] + data[p + 2], pos |-> p + 2]

parse_i4(data, p) ==
    IF p + 4 > Len(data) THEN [exc |-> Truncated, val |-> <<0, 0>>, pos |-> Len(data)]
    ELSE [exc |-> None,
          val |-> <<256 * data[p + 1] + data[p + 2], 256 * data[p + 3] + data[p + 4]>>,
          pos |-> p + 4]

\* The IEEE-754 single of 4 bytes, as (sign, exponent, mantissa).
parse_f4(data, p) ==
    Only({ [exc |-> r.exc,
            val |-> PyFloat(r.val[1] \div 32768, (r.val[1] \div 128) % 256,
                            (r.val[1] % 128) * 65536 + r.val[2]),
            pos |-> r.pos]
           : r \in {parse_i4(data, p)} })

parse_int(data, p, width) ==
    CASE width = 1 -> parse_i1(data, p)
      [] width = 2 -> parse_i2(data, p)
      [] width = 4 -> parse_i4(data, p)

\* The smaller of a 32-bit value n and a count r.
MinU32(n, r) == IF n[1] >= 32768 THEN r ELSE Min(n[1] * 65536 + n[2], r)

(***************************************************************************)
(* f.read(n): the next n bytes, or those that remain when fewer do.        *)
(***************************************************************************)
Read(data, p, n) ==
    Only({ [bytes |-> SubSeq(data, p + 1, p + m), pos |-> p + m]
           : m \in {Min(n, Len(data) - p)} })

\* f.read(n) for a 32-bit n.
Read32(data, p, n) == Read(data, p, MinU32(n, Len(data) - p))

(***************************************************************************)
(* Python list indexing, 0-based, a negative index counting from the end.  *)
(***************************************************************************)
PyInRange(list, i) == -Len(list) <= i /\ i < Len(list)
PyItem(list, i) == IF i >= 0 THEN list[i + 1] ELSE list[Len(list) + i + 1]

(***************************************************************************)
(* A run of fixed-width reads, one after the other, from the k-th width    *)
(* on, stopping at the first that fails. Result: [exc, vals, pos].         *)
(***************************************************************************)
RECURSIVE ReadIntsFrom(_, _, _, _)
ReadIntsFrom(data, p, widths, k) ==
    IF k > Len(widths) THEN [exc |-> None, vals |-> <<>>, pos |-> p]
    ELSE Only({
           IF r.exc # None THEN [exc |-> r.exc, vals |-> <<>>, pos |-> r.pos]
           ELSE Only({ [exc |-> rest.exc, vals |-> <<r.val>> \o rest.vals, pos |-> rest.pos]
                       : rest \in {ReadIntsFrom(data, r.pos, widths, k + 1)} })
           : r \in {parse_int(data, p, widths[k])} })

ReadInts(data, p, widths) == ReadIntsFrom(data, p, widths, 1)

(***************************************************************************)
(* Constant(tag_byte): the name of a tag, or None for a value that is no   *)
(* member of the enumeration (ValueError). The numbers are the class-file  *)
(* format's.                                                               *)
(***************************************************************************)
Constant(tag_byte) ==
    CASE tag_byte = 1 -> Some("CONSTANT_Utf8")
      [] tag_byte = 3 -> Some("CONSTANT_Integer")
      [] tag_byte = 4 -> Some("CONSTANT_Float")
      [] tag_byte = 7 -> Some("CONSTANT_Class")
      [] tag_byte = 8 -> Some("CONSTANT_String")
      [] tag_byte = 9 -> Some("CONSTANT_Fieldref")
      [] tag_byte = 10 -> Some("CONSTANT_Methodref")
      [] tag_byte = 12 -> Some("CONSTANT_NameAndType")
      [] tag_byte = 15 -> Some("CONSTANT_MethodHandle")
      [] tag_byte = 18 -> Some("CONSTANT_InvokeDynamic")
      [] OTHER -> None

\* The fixed-width fields that follow the tag byte.
FieldWidths(tag) ==
    CASE tag \in {"CONSTANT_Methodref", "CONSTANT_Fieldref",
                  "CONSTANT_NameAndType", "CONSTANT_InvokeDynamic"} -> <<2, 2>>
      [] tag \in {"CONSTANT_Class", "CONSTANT_String", "CONSTANT_Utf8"} -> <<2>>
      [] tag = "CONSTANT_MethodHandle" -> <<1, 2>>
      [] tag = "CONSTANT_Integer" -> <<4>>
      [] tag = "CONSTANT_Float" -> <<4>>
      [] OTHER -> <<>>

CpFail(e, at) == [exc |-> e, val |-> [tag |-> ""], pos |-> at]
CpOk(e, at) == [exc |-> None, val |-> e, pos |-> at]

\* The entry of a tag whose fields were read as r, r.pos the cursor after them.
CpEntry(data, tag, r) ==
    CASE tag = "CONSTANT_Methodref" ->
            CpOk([class_index |-> r.vals[1], name_and_type_index |-> r.vals[2], tag |-> tag],
                 r.pos)
      [] tag = "CONSTANT_Class" -> CpOk([name_index |-> r.vals[1], tag |-> tag], r.pos)
      [] tag = "CONSTANT_NameAndType" ->
            CpOk([name_index |-> r.vals[1], descriptor_index |-> r.vals[2], tag |-> tag], r.pos)
      [] tag = "CONSTANT_Utf8" ->
            Only({ CpOk([bytes |-> PyBytes(rd.bytes), tag |-> tag], rd.pos)
                   : rd \in {Read(data, r.pos, r.vals[1])} })
      [] tag = "CONSTANT_Fieldref" ->
            CpOk([class_index |-> r.vals[1], name_and_type_index |-> r.vals[2], tag |-> tag],
                 r.pos)
      [] tag = "CONSTANT_String" -> CpOk([string_index |-> r.vals[1], tag |-> tag], r.pos)
      [] tag = "CONSTANT_InvokeDynamic" ->
            CpOk([bootstrap_method_attr_index |-> r.vals[1],
                  name_and_type_index |-> r.vals[2], tag |-> tag], r.pos)
      [] tag = "CONSTANT_MethodHandle" ->
            CpOk([reference_kind |-> r.vals[1], reference_index |-> r.vals[2], tag |-> tag],
                 r.pos)
      [] tag = "CONSTANT_Float" ->
            CpOk([bytes |-> parse_f4(data, r.pos - 4).val, tag |-> tag], r.pos)
      [] tag = "CONSTANT_Integer" -> CpOk([bytes |-> PyInt(r.vals[1]), tag |-> tag], r.pos)
      [] OTHER ->
            CpFail(Some(ExcRec("NotImplementedError", "Unexpected constant tag")), r.pos)

(***************************************************************************)
(* One iteration of parse_constant_pool's loop: the tag byte, then the     *)
(* fields of that tag. Result: [exc, val, pos].                            *)
(***************************************************************************)
parse_cp_info(data, p) ==
    Only({
      IF t.exc # None THEN CpFail(t.exc, t.pos)
      ELSE IF Constant(t.val) = None
      THEN CpFail(Some(ExcRec("NotImplementedError", "Unknown constant tag")), t.pos)
      ELSE Only({
             IF r.exc # None THEN CpFail(r.exc, r.pos)
             ELSE CpEntry(data, Get(Constant(t.val)), r)
             : r \in {ReadInts(data, t.pos, FieldWidths(Get(Constant(t.val))))} })
      : t \in {parse_i1(data, p)} })

(***************************************************************************)
(* constant_pool.append(cp_info)                                           *)
(***************************************************************************)
\* AppendEntry as constant_pool.insert(0, cp_info).
AppendEntry_front(pool, cp_info) == <<cp_info>> \o pool

AppendEntry(pool, cp_info) == Append(pool, cp_info)

(***************************************************************************)
(* for i in range(constant_pool_count - 1): iterations i .. count - 2,     *)
(* with the entries decoded so far. Result: [exc, val, pos]; an exception  *)
(* leaves no pool.                                                         *)
(***************************************************************************)
RECURSIVE PoolLoop(_, _, _, _, _)
PoolLoop(data, p, i, count, pool) ==
    IF i >= count - 1 THEN [exc |-> None, val |-> pool, pos |-> p]
    ELSE Only({
           IF e.exc # None THEN [exc |-> e.exc, val |-> <<>>, pos |-> e.pos]
           ELSE Only({ PoolLoop(data, e.pos, j, count, longer)
                       : j \in {i + 1}, longer \in {AppendEntry(pool, e.val)} })
           : e \in {parse_cp_info(data, p)} })

parse_constant_pool(data, p, count) ==
    PoolLoop(data, p, 0, count, <<>>)

(***************************************************************************)
(* from_cp: the assertion, then the 0-based list access.                   *)
(* Result: [exc, val].                                                     *)
(***************************************************************************)
NoEntry == [tag |-> ""]

\* from_cp without its assertion.
from_cp_unchecked(cl, index) ==
    IF ~PyInRange(cl.constant_pool, index - 1)
    THEN [exc |-> Some(ExcRec("IndexError", "list index out of range")), val |-> NoEntry]
    ELSE [exc |-> None, val |-> PyItem(cl.constant_pool, index - 1)]

from_cp(cl, index) ==
    IF ~(index > 0)
    THEN [exc |-> Some(ExcRec("AssertionError", "Constant pool index must be positive")),
          val |-> NoEntry]
    ELSE IF ~PyInRange(cl.constant_pool, index - 1)
    THEN [exc |-> Some(ExcRec("IndexError", "list index out of range")), val |-> NoEntry]
    ELSE [exc |-> None, val |-> PyItem(cl.constant_pool, index - 1)]

(***************************************************************************)
(* class AttributeInfoName: the names of the payloads that have a parser.  *)
(***************************************************************************)
BOOTSTRAP_METHOD == <<66, 111, 111, 116, 115, 116, 114, 97, 112, 77, 101, 116, 104, 111, 100, 115>>
INNER_CLASSES == <<73, 110, 110, 101, 114, 67, 108, 97, 115, 115, 101, 115>>
SOURCE_FILE == <<83, 111, 117, 114, 99, 101, 70, 105, 108, 101>>
CODE == <<67, 111, 100, 101>>
LINE_NUMBER_TABLE == <<76, 105, 110, 101, 78, 117, 109, 98, 101, 114, 84, 97, 98, 108, 101>>

\* AttributeInfoName(attr_name): the member with that value, or None (ValueError).
AttributeInfoName(attr_name) ==
    IF attr_name.t # "bytes" THEN None
    ELSE CASE attr_name.v = BOOTSTRAP_METHOD -> Some("BOOTSTRAP_METHOD")
           [] attr_name.v = INNER_CLASSES -> Some("INNER_CLASSES")
           [] attr_name.v = SOURCE_FILE -> Some("SOURCE_FILE")
           [] attr_name.v = CODE -> Some("CODE")
           [] attr_name.v = LINE_NUMBER_TABLE -> Some("LINE_NUMBER_TABLE")
           [] OTHER -> None

(***************************************************************************)
(* for i in range(n): one record of fixed-width fields per iteration.      *)
(* Result: [exc, vals, pos], vals a sequence of field tuples.              *)
(***************************************************************************)
RECURSIVE ReadRecords(_, _, _, _)
ReadRecords(data, p, n, widths) ==
    IF n <= 0 THEN [exc |-> None, vals |-> <<>>, pos |-> p]
    ELSE Only({
           IF r.exc # None THEN [exc |-> r.exc, vals |-> <<>>, pos |-> r.pos]
           ELSE Only({ [exc |-> rest.exc, vals |-> <<r.vals>> \o rest.vals, pos |-> rest.pos]
                       : rest \in {ReadRecords(data, r.pos, m, widths)} })
           : r \in {ReadInts(data, p, widths)}, m \in {n - 1} })

\* A sub-parser's result: [exc, val, pos, log]; log is for parse_attributes' calls.
SubFail(e, at) == [exc |-> e, val |-> [failed |-> TRUE], pos |-> at, log |-> <<>>]
SubOk(v, at) == [exc |-> None, val |-> v, pos |-> at, log |-> <<>>]

\* for i in range(num_bootstrap_methods): the reference, the count, the arguments.
RECURSIVE BootstrapLoop(_, _, _)
BootstrapLoop(data, p, n) ==
    IF n <= 0 THEN [exc |-> None, vals |-> <<>>, pos |-> p]
    ELSE Only({
           IF h.exc # None THEN [exc |-> h.exc, vals |-> <<>>, pos |-> h.pos]
           ELSE Only({
                  IF a.exc # None THEN [exc |-> a.exc, vals |-> <<>>, pos |-> a.pos]
                  ELSE Only({
                         [exc |-> rest.exc,
                          vals |-> << [bootstrap_method_ref |-> h.vals[1],
                                       num_bootstrap_arguments |-> h.vals[2],
                                       bootstrap_arguments |->
                                           [k \in 1 .. Len(a.vals) |-> a.vals[k][1]]] >>
                                   \o rest.vals,
                          pos |-> rest.pos]
                         : rest \in {BootstrapLoop(data, a.pos, m)} })
                  : a \in {ReadRecords(data, h.pos, h.vals[2], <<2>>)} })
           : h \in {ReadInts(data, p, <<2, 2>>)}, m \in {n - 1} })

parse_attribute_info_BootstrapMethods(data) ==
    Only({
      IF num.exc # None THEN SubFail(num.exc, num.pos)
      ELSE Only({
             IF ms.exc # None THEN SubFail(ms.exc, ms.pos)
             ELSE SubOk([num_bootstrap_methods |-> num.val, bootstrap_methods |-> ms.vals],
                        ms.pos)
             : ms \in {BootstrapLoop(data, num.pos, num.val)} })
      : num \in {parse_i2(data, 0)} })

parse_attribute_info_SourceFile(data) ==
    Only({ IF r.exc # None THEN SubFail(r.exc, r.pos)
           ELSE SubOk([sourcefile_index |-> r.val], r.pos)
           : r \in {parse_i2(data, 0)} })

InnerClass(v) ==
    [inner_class_info_index |-> v[1], outer_class_info_index |-> v[2],
     inner_name_index |-> v[3], inner_class_access_flags |-> v[4]]

parse_attribute_info_InnerClasses(data) ==
    Only({
      IF num.exc # None THEN SubFail(num.exc, num.pos)
      ELSE Only({
             IF cs.exc # None THEN SubFail(cs.exc, cs.pos)
             ELSE SubOk([number_of_classes |-> num.val,
                         classes |-> [k \in 1 .. Len(cs.vals) |-> InnerClass(cs.vals[k])]],
                        cs.pos)
             : cs \in {ReadRecords(data, num.pos, num.val, <<2, 2, 2, 2>>)} })
      : num \in {parse_i2(data, 0)} })

LineNumber(v) == [start_pc |-> v[1], line_number |-> v[2]]

parse_attribute_info_LineNumberTable(data) ==
    Only({
      IF num.exc # None THEN SubFail(num.exc, num.pos)
      ELSE Only({
             IF es.exc # None THEN SubFail(es.exc, es.pos)
             ELSE SubOk([line_number_table_length |-> num.val,
                         line_number_table |->
                             [k \in 1 .. Len(es.vals) |-> LineNumber(es.vals[k])]],
                        es.pos)
             : es \in {ReadRecords(data, num.pos, num.val, <<2, 2>>)} })
      : num \in {parse_i2(data, 0)} })

(***************************************************************************)
(* info_bytes = f.read(attribute_length)                                   *)
(***************************************************************************)
\* ReadInfoBytes as f.read(): all that remains.
ReadInfoBytes_rest(data, p, attribute_length) == Read(data, p, Len(data) - p)

ReadInfoBytes(data, p, attribute_length) == Read32(data, p, attribute_length)

(***************************************************************************)
(* attr_info_stream = io.BytesIO(info_bytes): the stream the payload's     *)
(* parser reads, with its cursor at 0.                                     *)
(***************************************************************************)
BytesIO(info_bytes) == info_bytes

(***************************************************************************)
(* parse_attributes, parse_attribute_info and parse_attribute_info_Code    *)
(* call one another. depth counts the calls of parse_attributes that are   *)
(* active. Each envelope decoded adds a record to the log:                 *)
(*   before   the stream's cursor before the envelope                      *)
(*   avail    the bytes that remained after the length field               *)
(*   length   attribute_length                                             *)
(*   after    the stream's cursor after f.read(attribute_length)           *)
(*   given    the size of the stream handed to the payload's parser        *)
(*   subread  the cursor the payload's parser reached in that stream       *)
(***************************************************************************)
RECURSIVE AttributesLoop(_, _, _, _, _, _, _)
RECURSIVE parse_attribute_info(_, _, _, _)
RECURSIVE parse_attribute_info_Code(_, _, _)

AttrFail(e, at, lg) == [exc |-> e, val |-> <<>>, pos |-> at, log |-> lg]

parse_attributes(cl, data, p, count, depth) ==
    AttributesLoop(cl, data, p, count, depth, <<>>, <<>>)

\* One envelope whose name index idx and length len were read and whose name resolved.
Envelope(cl, data, p, count, depth, attributes, log, idx, name, len) ==
    Only({
      Only({
        Only({
          IF info.exc # None THEN AttrFail(info.exc, rd.pos, lg)
          ELSE Only({ AttributesLoop(cl, data, rd.pos, m, depth, longer, lg)
                      : m \in {count - 1},
                        longer \in {Append(attributes,
                                           [attribute_name_index |-> idx.val, _name |-> name,
                                            info |-> info.val])} })
          : lg \in {log \o << [depth |-> depth, name |-> name, before |-> p,
                               avail |-> Len(data) - len.pos, length |-> len.val,
                               after |-> rd.pos, given |-> Len(rd.bytes),
                               subread |-> info.pos] >> \o info.log} })
        : info \in {parse_attribute_info(cl, name, rd.bytes, depth)} })
      : rd \in {ReadInfoBytes(data, len.pos, len.val)} })

AttributesLoop(cl, data, p, count, depth, attributes, log) ==
    IF count <= 0 THEN [exc |-> None, val |-> attributes, pos |-> p, log |-> log]
    ELSE Only({
      IF idx.exc # None THEN AttrFail(idx.exc, idx.pos, log)
      ELSE Only({
        IF entry.exc # None THEN AttrFail(entry.exc, idx.pos, log)
        ELSE IF "bytes" \notin DOMAIN entry.val
        THEN AttrFail(Some(ExcRec("KeyError", "bytes")), idx.pos, log)
        ELSE Only({
          IF len.exc # None THEN AttrFail(len.exc, len.pos, log)
          ELSE Envelope(cl, data, p, count, depth, attributes, log, idx, entry.val.bytes, len)
          : len \in {parse_i4(data, idx.pos)} })
        : entry \in {from_cp(cl, idx.val)} })
      : idx \in {parse_i2(data, p)} })

parse_attribute_info(cl, attr_name, info_bytes, depth) ==
    IF AttributeInfoName(attr_name) = None
    THEN SubFail(Some(ExcRec("ValueError", "is not a valid AttributeInfoName")), 0)
    ELSE Only({
      CASE m = "BOOTSTRAP_METHOD" -> parse_attribute_info_BootstrapMethods(attr_info_stream)
        [] m = "SOURCE_FILE" -> parse_attribute_info_SourceFile(attr_info_stream)
        [] m = "INNER_CLASSES" -> parse_attribute_info_InnerClasses(attr_info_stream)
        [] m = "CODE" -> parse_attribute_info_Code(cl, attr_info_stream, depth)
        [] m = "LINE_NUMBER_TABLE" -> parse_attribute_info_LineNumberTable(attr_info_stream)
        [] OTHER -> SubFail(Some(ExcRec("NotImplementedError", "attribute is not implemented")), 0)
      : m \in {Get(AttributeInfoName(attr_name))}, attr_info_stream \in {BytesIO(info_bytes)} })

\* The rest of parse_attribute_info_Code once max_stack, max_locals, code_length (h) and
\* the code are read.
CodeTail(cl, data, depth, h, code) ==
    Only({
      IF exception_table_length.exc # None
      THEN SubFail(exception_table_length.exc, exception_table_length.pos)
      ELSE IF exception_table_length.val > 0
      THEN SubFail(Some(ExcRec("NotImplementedError", "We don't support exception tables")),
                   exception_table_length.pos)
      ELSE Only({
        IF nested_count.exc # None THEN SubFail(nested_count.exc, nested_count.pos)
        ELSE Only({
          IF nested.exc # None
          THEN [exc |-> nested.exc, val |-> [failed |-> TRUE], pos |-> nested.pos,
                log |-> nested.log]
          ELSE [exc |-> None,
                val |-> [max_stack |-> h.vals[1], max_locals |-> h.vals[2],
                         code |-> code.bytes, attributes |-> nested.val],
                pos |-> nested.pos, log |-> nested.log]
          : nested \in {parse_attributes(cl, data, nested_count.pos, nested_count.val, d)} })
        : nested_count \in {parse_i2(data, exception_table_length.pos)}, d \in {depth + 1} })
      : exception_table_length \in {parse_i2(data, code.pos)} })

parse_attribute_info_Code(cl, data, depth) ==
    Only({
      IF h.exc # None THEN SubFail(h.exc, h.pos)
      ELSE Only({ CodeTail(cl, data, depth, h, code)
                  : code \in {Read32(data, h.pos, h.vals[3])} })
      : h \in {ReadInts(data, 0, <<2, 2, 4>>)} })

(***************************************************************************)
(* parse_flags: the names of the table whose mask meets the value, in the  *)
(* table's order.                                                          *)
(***************************************************************************)
RECURSIVE BitAnd(_, _)
BitAnd(a, b) ==
    IF a = 0 \/ b = 0 THEN 0
    ELSE 2 * BitAnd(a \div 2, b \div 2) + (IF a % 2 = 1 /\ b % 2 = 1 THEN 1 ELSE 0)

parse_flags(value, flags) ==
    LET hit == SelectSeq(flags, LAMBDA f : BitAnd(value, f[2]) # 0)
    IN  [k \in 1 .. Len(hit) |-> hit[k][1]]

CLASS_ACCESS_FLAGS ==
    << <<"ACC_PUBLIC", 1>>, <<"ACC_FINAL", 16>>, <<"ACC_SUPER", 32>>,
       <<"ACC_INTERFACE", 512>>, <<"ACC_ABSTRACT", 1024>>, <<"ACC_SYNTHETIC", 4096>>,
       <<"ACC_ANNOTATION", 8192>>, <<"ACC_ENUM", 16384>> >>

METHOD_ACCESS_FLAGS ==
    << <<"ACC_PUBLIC", 1>>, <<"ACC_PRIVATE", 2>>, <<"ACC_PROTECTED", 4>>,
       <<"ACC_STATIC", 8>>, <<"ACC_FINAL", 16>>, <<"ACC_SYNCHRONIZED", 32>>,
       <<"ACC_BRIDGE", 64>>, <<"ACC_VARARGS", 128>>, <<"ACC_NATIVE", 256>>,
       <<"ACC_ABSTRACT", 1024>>, <<"ACC_STRICT", 2048>>, <<"ACC_SYNTHETIC", 4096>> >>

(***************************************************************************)
(* hex(n): "0x" and the lowercase digits of n, a string as the sequence of *)
(* its characters.                                                         *)
(***************************************************************************)
HexDigit == <<"0", "1", "2", "3", "4", "5", "6", "7", "8", "9", "a", "b", "c", "d", "e", "f">>

RECURSIVE HexDigits(_)
HexDigits(n) ==
    IF n < 16 THEN <<HexDigit[n + 1]>>
    ELSE Append(HexDigits(n \div 16), HexDigit[(n % 16) + 1])

hex(n) ==
    <<"0", "x">> \o
    (IF n[1] = 0 THEN HexDigits(n[2])
     ELSE HexDigits(n[1]) \o <<HexDigit[(n[2] \div 4096) + 1], HexDigit[((n[2] \div 256) % 16) + 1],
                                HexDigit[((n[2] \div 16) % 16) + 1], HexDigit[(n[2] % 16) + 1]>>)

\* MagicOk with the comparison left out.
MagicOk_any(v) == TRUE

\* magic != '0xcafebabe'
MagicOk(v) == hex(v) = <<"0", "x", "c", "a", "f", "e", "b", "a", "b", "e">>

(***************************************************************************)
(* parse_interfaces and parse_fields: an empty list for a count of 0, and  *)
(* the exception of the loop's first iteration otherwise. Result: exc.     *)
(***************************************************************************)
parse_interfaces(interfaces_count) ==
    IF interfaces_count > 0
    THEN Some(ExcRec("NotImplementedError", "We don't support interfaces"))
    ELSE None

parse_fields(interfaces_count) ==
    IF interfaces_count > 0
    THEN Some(ExcRec("NotImplementedError", "We don't support interfaces"))
    ELSE None

(***************************************************************************)
(* JVMClass(version, constant_pool, None, None, access_flags, this_class,  *)
(* super_class), and the two assignments that complete it.                 *)
(***************************************************************************)
JVMClass(v, cp, m, a, flags, this, super) ==
    [version |-> v, constant_pool |-> cp, methods |-> m, attributes |-> a,
     access_flags |-> flags, this_class |-> this, super_class |-> super]

\* SetMethods with the assignment left out.
SetMethods_unassigned(cl, ms) == cl

SetMethods(cl, ms) == [cl EXCEPT !.methods = Some(ms)]
SetAttributes(cl, as) == [cl EXCEPT !.attributes = Some(as)]

(***************************************************************************)
(* bytes.decode('utf-8'): the code points, or None (UnicodeDecodeError).   *)
(***************************************************************************)
IsCont(b) == 128 <= b /\ b <= 191

\* The length of the sequence a lead byte announces, 0 for a byte that leads none.
Utf8Width(b) ==
    IF b < 128 THEN 1
    ELSE IF 194 <= b /\ b <= 223 THEN 2
    ELSE IF 224 <= b /\ b <= 239 THEN 3
    ELSE IF 240 <= b /\ b <= 244 THEN 4
    ELSE 0

\* The code point of the n bytes from bs[i] on.
Utf8Point(bs, i, n) ==
    CASE n = 1 -> bs[i]
      [] n = 2 -> (bs[i] - 192) * 64 + (bs[i + 1] - 128)
      [] n = 3 -> (bs[i] - 224) * 4096 + (bs[i + 1] - 128) * 64 + (bs[i + 2] - 128)
      [] OTHER -> (bs[i] - 240) * 262144 + (bs[i + 1] - 128) * 4096
                      + (bs[i + 2] - 128) * 64 + (bs[i + 3] - 128)

Utf8Valid(n, cp) ==
    CASE n = 3 -> cp >= 2048 /\ ~(55296 <= cp /\ cp <= 57343)
      [] n = 4 -> cp >= 65536 /\ cp <= 1114111
      [] OTHER -> TRUE

RECURSIVE Utf8DecodeFrom(_, _)
Utf8DecodeFrom(bs, i) ==
    IF i > Len(bs) THEN Some(<<>>)
    ELSE Only({
           IF n = 0 \/ i + n - 1 > Len(bs) THEN None
           ELSE IF \E k \in 1 .. n - 1 : ~IsCont(bs[i + k]) THEN None
           ELSE Only({
                  IF ~Utf8Valid(n, cp) THEN None
                  ELSE Only({ IF rest = None THEN None ELSE Some(<<cp>> \o Get(rest))
                              : rest \in {Utf8DecodeFrom(bs, j)} })
                  : cp \in {Utf8Point(bs, i, n)}, j \in {i + n} })
           : n \in {Utf8Width(bs[i])} })

Utf8Decode(bs) == Utf8DecodeFrom(bs, 1)

PyStr(cps) == [t |-> "str", v |-> cps]

(***************************************************************************)
(* The lookups on a decoded class. Result: [exc, val], val the value       *)
(* returned (or None).                                                     *)
(***************************************************************************)
Raised(e, m) == [exc |-> Some(ExcRec(e, m)), val |-> None]
Returned(v) == [exc |-> None, val |-> Some(v)]

get_name_of_class(cl, class_index) ==
    LET pool == cl.constant_pool
        first == PyItem(pool, class_index - 1)
        second == PyItem(pool, first.name_index - 1)
        text == Utf8Decode(second.bytes.v)
    IN  IF ~PyInRange(pool, class_index - 1) THEN Raised("IndexError", "list index out of range")
        ELSE IF "name_index" \notin DOMAIN first THEN Raised("KeyError", "name_index")
        ELSE IF ~PyInRange(pool, first.name_index - 1)
        THEN Raised("IndexError", "list index out of range")
        ELSE IF "bytes" \notin DOMAIN second THEN Raised("KeyError", "bytes")
        ELSE IF second.bytes.t # "bytes" THEN Raised("AttributeError", "decode")
        ELSE IF text = None THEN Raised("UnicodeDecodeError", "utf-8")
        ELSE Returned(PyStr(Get(text)))

from_bsm(cl, index) ==
    LET attrs == Get(cl.attributes)
        found == {k \in 1 .. Len(attrs) : attrs[k]._name = PyBytes(BOOTSTRAP_METHOD)}
        k0 == CHOOSE k \in found : \A j \in found : k <= j
        list == attrs[k0].info.bootstrap_methods
    IN  IF ~(index >= 0)
        THEN Raised("AssertionError", "Bootstrap method index must be non-negative")
        ELSE IF cl.attributes = None
        THEN Raised("AssertionError", "Bootstrap method index must be non-negative")
        ELSE IF found = {} THEN Raised("RuntimeError", "Bootstrap method not found")
        ELSE IF ~PyInRange(list, index) THEN Raised("IndexError", "list index out of range")
        ELSE Returned(PyItem(list, index))

(***************************************************************************)
(* The inputs: class files laid out as the format's comments in the source *)
(* describe them (cp_info, method_info, attribute_info, Code_attribute),   *)
(* and every prefix of each.                                               *)
(***************************************************************************)
U1(n) == <<n>>
U2(n) == <<n \div 256, n % 256>>
U4(n) == U2(n \div 65536) \o U2(n % 65536)

RECURSIVE Concat(_)
Concat(ss) == IF ss = <<>> THEN <<>> ELSE Head(ss) \o Concat(Tail(ss))

Zeros(n) == [k \in 1 .. n |-> 0]

MAIN == <<77, 97, 105, 110>>

\* The bytes of a pool entry given as parse_cp_info decodes it.
EncodeEntry(e) ==
    CASE e.tag = "CONSTANT_Utf8" -> U1(1) \o U2(Len(e.bytes.v)) \o e.bytes.v
      [] e.tag = "CONSTANT_Integer" -> U1(3) \o U2(e.bytes.v[1]) \o U2(e.bytes.v[2])
      [] e.tag = "CONSTANT_Float" ->
            U1(4) \o U2(e.bytes.v[1] * 32768 + e.bytes.v[2] * 128 + e.bytes.v[3] \div 65536)
                  \o U2(e.bytes.v[3] % 65536)
      [] e.tag = "CONSTANT_Class" -> U1(7) \o U2(e.name_index)
      [] e.tag = "CONSTANT_String" -> U1(8) \o U2(e.string_index)
      [] e.tag = "CONSTANT_Fieldref" -> U1(9) \o U2(e.class_index) \o U2(e.name_and_type_index)
      [] e.tag = "CONSTANT_Methodref" -> U1(10) \o U2(e.class_index) \o U2(e.name_and_type_index)
      [] e.tag = "CONSTANT_NameAndType" -> U1(12) \o U2(e.name_index) \o U2(e.descriptor_index)
      [] e.tag = "CONSTANT_MethodHandle" -> U1(15) \o U1(e.reference_kind) \o U2(e.reference_index)
      [] e.tag = "CONSTANT_InvokeDynamic" ->
            U1(18) \o U2(e.bootstrap_method_attr_index) \o U2(e.name_and_type_index)

Utf8Entry(bs) == [bytes |-> PyBytes(bs), tag |-> "CONSTANT_Utf8"]

\* Entries 1 .. 15; the last is a Class entry whose name is entry 14, "Main".
StdPool ==
    << Utf8Entry(CODE), Utf8Entry(SOURCE_FILE), Utf8Entry(BOOTSTRAP_METHOD),
       Utf8Entry(LINE_NUMBER_TABLE), Utf8Entry(INNER_CLASSES),
       [bytes |-> PyInt(<<51966, 7>>), tag |-> "CONSTANT_Integer"],
       [bytes |-> PyFloat(0, 127, 0), tag |-> "CONSTANT_Float"],
       [class_index |-> 15, name_and_type_index |-> 9, tag |-> "CONSTANT_Methodref"],
       [name_index |-> 14, descriptor_index |-> 14, tag |-> "CONSTANT_NameAndType"],
       [class_index |-> 15, name_and_type_index |-> 9, tag |-> "CONSTANT_Fieldref"],
       [string_index |-> 14, tag |-> "CONSTANT_String"],
       [reference_kind |-> 6, reference_index |-> 8, tag |-> "CONSTANT_MethodHandle"],
       [bootstrap_method_attr_index |-> 0, name_and_type_index |-> 9,
        tag |-> "CONSTANT_InvokeDynamic"],
       Utf8Entry(MAIN),
       [name_index |-> 14, tag |-> "CONSTANT_Class"] >>

\* A pool whose last entries are a Class entry naming an Integer and a Utf8 entry.
OddPool ==
    << Utf8Entry(SOURCE_FILE), [bytes |-> PyInt(<<51966, 7>>), tag |-> "CONSTANT_Integer"],
       [name_index |-> 2, tag |-> "CONSTANT_Class"], Utf8Entry(<<77, 195, 169>>),
       [name_index |-> 4, tag |-> "CONSTANT_Class"], Utf8Entry(<<77, 255>>),
       [name_index |-> 6, tag |-> "CONSTANT_Class"], [name_index |-> 0, tag |-> "CONSTANT_Class"],
       Utf8Entry(MAIN) >>

EncodePool(count, entries) ==
    U2(count) \o Concat([k \in 1 .. Len(entries) |-> EncodeEntry(entries[k])])

\* [bytes, pool, count]: the pool section, the entries it declares and its count field.
PoolOf(count, entries) == [bytes |-> EncodePool(count, entries), pool |-> entries, count |-> count]

StdPoolSection == PoolOf(Len(StdPool) + 1, StdPool)

OtherPoolSections ==
    { PoolOf(Len(OddPool) + 1, OddPool), PoolOf(1, <<>>), PoolOf(0, <<>>),
      [bytes |-> U2(3) \o EncodeEntry(Utf8Entry(MAIN)) \o U1(2) \o U2(1),
       pool |-> <<Utf8Entry(MAIN)>>, count |-> 3] }

\* attribute_info: the name, the declared length (the payload and pad bytes more), the bytes.
EncodeAttribute(name_index, payload, pad) ==
    U2(name_index) \o U4(Len(payload) + pad) \o payload \o Zeros(pad)

EncodeList(items) == U2(Len(items)) \o Concat(items)

LineNumberTableAttr == EncodeAttribute(4, U2(1) \o U2(0) \o U2(1), 0)

\* Code_attribute with `nest` Code payloads inside one another and a count x of handlers.
RECURSIVE CodePayload(_, _)
CodePayload(nest, x) ==
    U2(1) \o U2(1) \o U4(2) \o <<3, 177>> \o U2(x) \o Zeros(8 * x)
    \o EncodeList(IF nest > 1 THEN <<EncodeAttribute(1, CodePayload(nest - 1, 0), 0)>>
                  ELSE <<LineNumberTableAttr, LineNumberTableAttr>>)

\* method_info with one Code attribute.
MethodInfo(nest, x) ==
    U2(9) \o U2(14) \o U2(14) \o EncodeList(<<EncodeAttribute(1, CodePayload(nest, x), 0)>>)

MethodSections ==
    {EncodeList(<<>>)} \cup
    {EncodeList(<<MethodInfo(nest, x)>>) : nest \in 1 .. MaxNest, x \in 0 .. MaxCount}

\* The j-th BootstrapMethods attribute: two methods, the first with reference j.
BootstrapAttr(j) ==
    EncodeAttribute(3, U2(2) \o U2(j) \o U2(1) \o U2(6) \o U2(12) \o U2(0), 0)

SourceFileAttr(pad) == EncodeAttribute(2, U2(14), pad)

InnerClassesAttr == EncodeAttribute(5, U2(1) \o U2(15) \o U2(0) \o U2(14) \o U2(1), 0)

AttributeLists ==
    { [j \in 1 .. b |-> BootstrapAttr(j)] \o sf :
        b \in 0 .. MaxBsm,
        sf \in {<<>>} \cup {<<SourceFileAttr(pad)>> : pad \in 0 .. MaxPad} }
    \cup {<<InnerClassesAttr>>}
    \cup {<<EncodeAttribute(n, U2(14), 0)>> : n \in {0, 6, 8, 14, 99}}

MAGIC == <<202, 254, 186, 190>>

\* field_info / an interface index, for a count that is not 0.
FieldInfo == U2(1) \o U2(14) \o U2(14) \o U2(0)

ClassFile(magic, ps, ni, nf, ms, as) ==
    magic \o U2(0) \o U2(52) \o ps.bytes \o U2(33) \o U2(Len(ps.pool)) \o U2(0)
    \o EncodeList([k \in 1 .. ni |-> U2(Len(ps.pool))])
    \o EncodeList([k \in 1 .. nf |-> FieldInfo])
    \o ms \o EncodeList(as)

\* [file, pool, count]: a file with the pool it declares.
Given(magic, ps, ni, nf, ms, as) ==
    [file |-> ClassFile(magic, ps, ni, nf, ms, as), pool |-> ps.pool, count |-> ps.count]

Givens ==
    {Given(MAGIC, StdPoolSection, 0, 0, ms, as) : ms \in MethodSections, as \in AttributeLists}
    \cup {Given(MAGIC, StdPoolSection, ni, nf, EncodeList(<<>>), <<>>) :
            ni \in 0 .. MaxCount, nf \in 0 .. MaxCount}
    \cup {Given(MAGIC, ps, 0, 0, EncodeList(<<>>), as) :
            ps \in OtherPoolSections, as \in {<<>>, <<SourceFileAttr(0)>>}}
    \cup {Given(<<222, 173, 190, 239>>, StdPoolSection, 0, 0, EncodeList(<<>>), <<>>)}

(***************************************************************************)
(* The state after open(file_path, "rb"): nothing read, nothing decoded.   *)
(***************************************************************************)
Init ==
    /\ \E g \in Givens : \E n \in 0 .. Len(g.file) :
          /\ input = SubSeq(g.file, 1, n)
          /\ given = [pool |-> g.pool, count |-> g.count, truncated |-> n < Len(g.file)]
    /\ pos = 0
    /\ pc = "magic"
    /\ exc = None
    /\ version = None
    /\ constant_pool_count = None
    /\ constant_pool = None
    /\ header = None
    /\ clazz = None
    /\ methods_count = None
    /\ methods = <<>>
    /\ attributes_count = None
    /\ returned = None
    /\ attrLog = <<>>
    /\ query = None

Running == exc = None /\ returned = None

\* An exception leaves parse_class_file: the cursor stays where the read left it.
Raise(e, at) ==
    /\ exc' = e
    /\ pos' = at

\* magic = hex(parse_i4(f)); if magic != '0xcafebabe': raise RuntimeError(...)
ReadMagic ==
    /\ Running /\ pc = "magic"
    /\ \E r \in {parse_i4(input, pos)} :
          IF r.exc # None THEN Raise(r.exc, r.pos) /\ pc' = pc
          ELSE IF ~MagicOk(r.val)
          THEN /\ Raise(Some(ExcRec("RuntimeError", "Not a Java file: invalid magic number")),
                        r.pos)
               /\ pc' = pc
          ELSE pos' = r.pos /\ exc' = exc /\ pc' = "version"
    /\ UNCHANGED <<given, input, version, constant_pool_count, constant_pool, header, clazz,
                   methods_count, methods, attributes_count, returned, attrLog, query>>

\* v_minor = parse_i2(f); v_major = parse_i2(f); version = (v_major, v_minor)
ReadVersion ==
    /\ Running /\ pc = "version"
    /\ \E r \in {ReadInts(input, pos, <<2, 2>>)} :
          IF r.exc # None THEN Raise(r.exc, r.pos) /\ pc' = pc /\ version' = version
          ELSE /\ pos' = r.pos /\ exc' = exc /\ pc' = "pool"
               /\ version' = Some(<<r.vals[2], r.vals[1]>>)
    /\ UNCHANGED <<given, input, constant_pool_count, constant_pool, header, clazz,
                   methods_count, methods, attributes_count, returned, attrLog, query>>

\* constant_pool_count = parse_i2(f); constant_pool = parse_constant_pool(f, ...)
ReadPool ==
    /\ Running /\ pc = "pool"
    /\ \E c \in {parse_i2(input, pos)} :
          IF c.exc # None
          THEN /\ Raise(c.exc, c.pos) /\ pc' = pc
               /\ UNCHANGED <<constant_pool_count, constant_pool>>
          ELSE \E r \in {parse_constant_pool(input, c.pos, c.val)} :
                  IF r.exc # None
                  THEN /\ Raise(r.exc, r.pos) /\ pc' = pc
                       /\ constant_pool_count' = Some(c.val)
                       /\ constant_pool' = constant_pool
                  ELSE /\ pos' = r.pos /\ exc' = exc /\ pc' = "flags"
                       /\ constant_pool_count' = Some(c.val)
                       /\ constant_pool' = Some(r.val)
    /\ UNCHANGED <<given, input, version, header, clazz,
                   methods_count, methods, attributes_count, returned, attrLog, query>>

\* access_flags = parse_flags(parse_i2(f), ...); this_class = ...; super_class = ...
ReadFlags ==
    /\ Running /\ pc = "flags"
    /\ \E r \in {ReadInts(input, pos, <<2, 2, 2>>)} :
          IF r.exc # None THEN Raise(r.exc, r.pos) /\ pc' = pc /\ header' = header
          ELSE /\ pos' = r.pos /\ exc' = exc /\ pc' = "interfaces"
               /\ header' = Some([access_flags |-> parse_flags(r.vals[1], CLASS_ACCESS_FLAGS),
                                  this_class |-> r.vals[2], super_class |-> r.vals[3]])
    /\ UNCHANGED <<given, input, version, constant_pool_count, constant_pool, clazz,
                   methods_count, methods, attributes_count, returned, attrLog, query>>

\* interfaces_count = parse_i2(f); interfaces = parse_interfaces(f, interfaces_count)
ReadInterfaces ==
    /\ Running /\ pc = "interfaces"
    /\ \E c \in {parse_i2(input, pos)} :
          IF c.exc # None THEN Raise(c.exc, c.pos) /\ pc' = pc
          ELSE IF parse_interfaces(c.val) # None
          THEN Raise(parse_interfaces(c.val), c.pos) /\ pc' = pc
          ELSE pos' = c.pos /\ exc' = exc /\ pc' = "fields"
    /\ UNCHANGED <<given, input, version, constant_pool_count, constant_pool, header, clazz,
                   methods_count, methods, attributes_count, returned, attrLog, query>>

\* fields_count = parse_i2(f); fields = parse_fields(f, fields_count); clazz = JVMClass(...)
ReadFields ==
    /\ Running /\ pc = "fields"
    /\ \E c \in {parse_i2(input, pos)} :
          IF c.exc # None THEN Raise(c.exc, c.pos) /\ pc' = pc /\ clazz' = clazz
          ELSE IF parse_fields(c.val) # None
          THEN Raise(parse_fields(c.val), c.pos) /\ pc' = pc /\ clazz' = clazz
          ELSE /\ pos' = c.pos /\ exc' = exc /\ pc' = "methods_count"
               /\ clazz' = Some(JVMClass(Get(version), Get(constant_pool), None, None,
                                         Get(header).access_flags, Get(header).this_class,
                                         Get(header).super_class))
    /\ UNCHANGED <<given, input, version, constant_pool_count, constant_pool, header,
                   methods_count, methods, attributes_count, returned, attrLog, query>>

\* methods_count = parse_i2(f); methods = []
ReadMethodsCount ==
    /\ Running /\ pc = "methods_count"
    /\ \E c \in {parse_i2(input, pos)} :
          IF c.exc # None THEN Raise(c.exc, c.pos) /\ pc' = pc /\ methods_count' = methods_count
          ELSE /\ pos' = c.pos /\ exc' = exc /\ pc' = "method"
               /\ methods_count' = Some(c.val)
    /\ methods' = <<>>
    /\ UNCHANGED <<given, input, version, constant_pool_count, constant_pool, header, clazz,
                   attributes_count, returned, attrLog, query>>

\* One iteration of for i in range(methods_count).
ReadMethod ==
    /\ Running /\ pc = "method"
    /\ Len(methods) < Get(methods_count)
    /\ \E h \in {ReadInts(input, pos, <<2, 2, 2, 2>>)} :
          IF h.exc # None
          THEN Raise(h.exc, h.pos) /\ UNCHANGED <<methods, attrLog>>
          ELSE \E a \in {parse_attributes(Get(clazz), input, h.pos, h.vals[4], 1)} :
                  IF a.exc # None
                  THEN Raise(a.exc, a.pos) /\ methods' = methods /\ attrLog' = attrLog \o a.log
                  ELSE /\ pos' = a.pos /\ exc' = exc
                       /\ methods' = Append(methods,
                               [access_flags |-> parse_flags(h.vals[1], METHOD_ACCESS_FLAGS),
                                name_index |-> h.vals[2], descriptor_index |-> h.vals[3],
                                attributes |-> a.val])
                       /\ attrLog' = attrLog \o a.log
    /\ UNCHANGED <<given, input, pc, version, constant_pool_count, constant_pool, header, clazz,
                   methods_count, attributes_count, returned, query>>

\* clazz.methods = methods, once the loop has run methods_count times.
AssignMethods ==
    /\ Running /\ pc = "method"
    /\ Len(methods) >= Get(methods_count)
    /\ clazz' = Some(SetMethods(Get(clazz), methods))
    /\ pc' = "attributes"
    /\ UNCHANGED <<given, input, pos, exc, version, constant_pool_count, constant_pool, header,
                   methods_count, methods, attributes_count, returned, attrLog, query>>

\* attributes_count = parse_i2(f); attributes = parse_attributes(...);
\* clazz.attributes = attributes; return clazz
ReadAttributes ==
    /\ Running /\ pc = "attributes"
    /\ \E c \in {parse_i2(input, pos)} :
          IF c.exc # None
          THEN /\ Raise(c.exc, c.pos)
               /\ UNCHANGED <<pc, clazz, attributes_count, returned, attrLog>>
          ELSE \E a \in {parse_attributes(Get(clazz), input, c.pos, c.val, 1)} :
                  IF a.exc # None
                  THEN /\ Raise(a.exc, a.pos)
                       /\ attributes_count' = Some(c.val)
                       /\ attrLog' = attrLog \o a.log
                       /\ UNCHANGED <<pc, clazz, returned>>
                  ELSE /\ pos' = a.pos /\ exc' = exc /\ pc' = "done"
                       /\ attributes_count' = Some(c.val)
                       /\ attrLog' = attrLog \o a.log
                       /\ clazz' = Some(SetAttributes(Get(clazz), a.val))
                       /\ returned' = clazz'
    /\ UNCHANGED <<given, input, version, constant_pool_count, constant_pool, header,
                   methods_count, methods, query>>

(***************************************************************************)
(* The lookups a caller makes on the class parse_class_file returned.      *)
(***************************************************************************)
Indices == -MaxIndex .. Len(Get(returned).constant_pool) + MaxIndex

Lookup(op, index, r) ==
    /\ query' = Some([op |-> op, index |-> index, exc |-> r.exc, val |-> r.val])
    /\ UNCHANGED <<given, input, pos, pc, exc, version, constant_pool_count, constant_pool,
                   header, clazz, methods_count, methods, attributes_count, returned, attrLog>>

CallFromCp ==
    /\ returned # None
    /\ \E index \in Indices : \E r \in {from_cp(Get(returned), index)} :
          Lookup("from_cp", index,
                 [exc |-> r.exc, val |-> IF r.exc = None THEN Some(r.val) ELSE None])

CallGetNameOfClass ==
    /\ returned # None
    /\ \E index \in Indices :
       \E r \in {get_name_of_class(Get(returned), index)} :
          Lookup("get_name_of_class", index, r)

CallFromBsm ==
    /\ returned # None
    /\ \E index \in Indices :
       \E r \in {from_bsm(Get(returned), index)} :
          Lookup("from_bsm", index, r)

Next ==
    \/ ReadMagic
    \/ ReadVersion
    \/ ReadPool
    \/ ReadFlags
    \/ ReadInterfaces
    \/ ReadFields
    \/ ReadMethodsCount
    \/ ReadMethod
    \/ AssignMethods
    \/ ReadAttributes
    \/ CallFromCp
    \/ CallGetNameOfClass
    \/ CallFromBsm

Spec == Init /\ [][Next]_vars

(***************************************************************************)
(* The error taxonomy of the specification, read off the exceptions.       *)
(***************************************************************************)
IsTruncatedInput(e) == e.exc = "TruncatedInput"
IsInvalidMagic(e) == e.exc = "RuntimeError" /\ e.msg = "Not a Java file: invalid magic number"
IsUnsupportedConstantTag(e) ==
    e.exc = "NotImplementedError" /\ e.msg \in {"Unknown constant tag", "Unexpected constant tag"}
IsBadIndex(e) == e.exc \in {"AssertionError", "IndexError", "KeyError", "AttributeError"}
IsNotFound(e) == e.exc = "RuntimeError" /\ e.msg = "Bootstrap method not found"
\* An UnsupportedFeature error that names the section.
IsUnsupportedFeature(e, section) ==
    /\ e.exc = "NotImplementedError"
    /\ e.msg = CASE section = "interfaces" -> "We don't support interfaces"
                 [] section = "fields" -> "We don't support fields"
                 [] section = "exception_table" -> "We don't support exception tables"

Finished == returned # None
Failed == exc # None

\* The 32-bit length n is at most the count r.
FitsIn(n, r) == n[1] < 32768 /\ n[1] * 65536 + n[2] <= r
Value32(n) == n[1] * 65536 + n[2]

\* The top-level attributes of the returned class that are BootstrapMethods attributes.
BootstrapAttributes ==
    {k \in 1 .. Len(Get(Get(returned).attributes)) :
        Get(Get(returned).attributes)[k]._name = PyBytes(BOOTSTRAP_METHOD)}

(***************************************************************************)
(* C1: parse_class_file is all-or-nothing. What it returns is a class with *)
(* methods and attributes both set, holding as many methods and top-level  *)
(* attributes as the counts it read declare; when it ends in an exception  *)
(* it returns nothing.                                                     *)
(***************************************************************************)
C1_AllOrNothing ==
    /\ Finished =>
          /\ ~Failed /\ pc = "done"
          /\ Get(returned).methods # None
          /\ Get(returned).attributes # None
          /\ Len(Get(Get(returned).methods)) = Get(methods_count)
          /\ Len(Get(Get(returned).attributes)) = Get(attributes_count)
    /\ Failed => returned = None

C1_Witness ==
    /\ Finished
    /\ Len(Get(Get(returned).methods)) >= 1
    /\ Len(Get(Get(returned).attributes)) >= 2

(***************************************************************************)
(* C2: an input cut short in the middle of a field, a length-prefixed raw  *)
(* region included, never decodes to a class.                              *)
(***************************************************************************)
C2_TruncatedNeverDecodes == given.truncated => ~Finished

(***************************************************************************)
(* C3: get_name_of_class returns text only when class_index is in          *)
(* 1 .. the pool's size, the entry there is a Class entry and its          *)
(* name_index points at a Utf8 entry; otherwise it fails.                  *)
(***************************************************************************)
ChainIntact(pool, i) ==
    /\ 1 <= i /\ i <= Len(pool)
    /\ pool[i].tag = "CONSTANT_Class"
    /\ 1 <= pool[i].name_index /\ pool[i].name_index <= Len(pool)
    /\ pool[pool[i].name_index].tag = "CONSTANT_Utf8"

C3_NameOnlyThroughIntactChain ==
    (query # None /\ Get(query).op = "get_name_of_class") =>
        \/ ChainIntact(Get(returned).constant_pool, Get(query).index)
        \/ Get(query).exc # None /\ Get(query).val = None

(***************************************************************************)
(* C4: from_bsm succeeds only if exactly one BootstrapMethods attribute    *)
(* exists at the top level and k is within its method list.                *)
(***************************************************************************)
C4_ExactlyOne ==
    (query # None /\ Get(query).op = "from_bsm" /\ Get(query).exc = None) =>
        /\ Cardinality(BootstrapAttributes) = 1
        /\ \A k \in BootstrapAttributes :
              /\ 0 <= Get(query).index
              /\ Get(query).index
                    < Len(Get(Get(returned).attributes)[k].info.bootstrap_methods)

(***************************************************************************)
(* C5: from_cp is a 1-based lookup. For a pool decoded from count field N, *)
(* from_cp(i) with 1 <= i <= N - 1 returns the i-th entry the file         *)
(* declares, and from_cp(i) with i <= 0 fails with BadIndex and returns no *)
(* entry.                                                                  *)
(***************************************************************************)
C5_OneBasedLookup ==
    (query # None /\ Get(query).op = "from_cp") =>
        LET i == Get(query).index
        IN  /\ (1 <= i /\ i <= Get(constant_pool_count) - 1) =>
                  /\ Get(query).exc = None
                  /\ Get(query).val = Some(given.pool[i])
            /\ i <= 0 =>
                  /\ Get(query).exc # None /\ IsBadIndex(Get(Get(query).exc))
                  /\ Get(query).val = None

C5_Witness ==
    /\ query # None /\ Get(query).op = "from_cp"
    /\ Get(query).index = Get(constant_pool_count) - 1
    /\ Get(query).index >= 2
    /\ Get(query).exc = None

(***************************************************************************)
(* C6 as stated: for every value K of the pool count field a decoded pool  *)
(* holds exactly K - 1 entries, in declaration order, and an unknown tag   *)
(* leaves no pool. (The order is that of the file once the decode has read *)
(* on beyond the pool: the last entry of a pool the input ends in may be   *)
(* cut short.)                                                             *)
(***************************************************************************)
UnknownTagLeavesNoPool ==
    (Failed /\ IsUnsupportedConstantTag(Get(exc))) =>
        /\ pc = "pool" /\ constant_pool = None /\ clazz = None /\ returned = None

C6_CountMinusOne ==
    /\ constant_pool # None =>
          /\ Len(Get(constant_pool)) = Get(constant_pool_count) - 1
    /\ header # None => Get(constant_pool) = given.pool
    /\ UnknownTagLeavesNoPool

(***************************************************************************)
(* C6, amended: for every value K >= 1 of the pool count field a decoded   *)
(* pool holds exactly K - 1 entries, and for K = 0 it holds none; the      *)
(* entries are in declaration order, and an unknown tag leaves no pool.    *)
(***************************************************************************)
C6_CountMinusOneFromOne ==
    /\ constant_pool # None =>
          /\ Len(Get(constant_pool))
                = (IF Get(constant_pool_count) >= 1 THEN Get(constant_pool_count) - 1 ELSE 0)
    /\ header # None => Get(constant_pool) = given.pool
    /\ UnknownTagLeavesNoPool

C6_Witness ==
    /\ constant_pool # None
    /\ Get(constant_pool_count) >= 3
    /\ Len(Get(constant_pool)) = Get(constant_pool_count) - 1

(***************************************************************************)
(* C7: a count that is not 0 of interfaces, of fields or of exception      *)
(* handlers ends the decode with an UnsupportedFeature error that names    *)
(* that section, and no later section is decoded.                          *)
(***************************************************************************)
C7_ErrorNamesSection ==
    (Failed /\ Get(exc).exc = "NotImplementedError") =>
        CASE pc = "interfaces" ->
                /\ IsUnsupportedFeature(Get(exc), "interfaces")
                /\ clazz = None /\ methods_count = None
          [] pc = "fields" ->
                /\ IsUnsupportedFeature(Get(exc), "fields")
                /\ clazz = None /\ methods_count = None
          [] pc \in {"method", "attributes"} ->
                /\ IsUnsupportedFeature(Get(exc), "exception_table")
                /\ returned = None
          [] OTHER -> IsUnsupportedConstantTag(Get(exc))

(***************************************************************************)
(* C8: the magic check is the first step. An input whose first 4 bytes are *)
(* not CA FE BA BE fails with InvalidMagic with exactly those 4 bytes      *)
(* consumed and nothing else read or decoded.                              *)
(***************************************************************************)
C8_MagicFirst ==
    /\ (Failed /\ IsInvalidMagic(Get(exc))) =>
          /\ pos = 4 /\ pc = "magic"
          /\ version = None /\ constant_pool_count = None /\ constant_pool = None
          /\ header = None /\ clazz = None /\ returned = None
    /\ (Len(input) >= 4 /\ SubSeq(input, 1, 4) # MAGIC) =>
          /\ pc = "magic"
          /\ pos \in {0, 4}
          /\ pos = 4 => Failed /\ IsInvalidMagic(Get(exc))

C8_Witness == Failed /\ IsInvalidMagic(Get(exc)) /\ Len(input) > 4

(***************************************************************************)
(* C9: when at least `length` bytes remain, decoding one attribute moves   *)
(* the enclosing cursor by exactly 2 + 4 + length, whatever the payload's  *)
(* parser reads, and that parser (the nested attribute list of a Code      *)
(* payload included) is handed, and reads, no byte beyond the declared     *)
(* length.                                                                 *)
(***************************************************************************)
C9_PayloadIsolation ==
    \A k \in 1 .. Len(attrLog) :
        LET r == attrLog[k]
        IN  /\ r.subread <= r.given
            /\ r.length[1] < 32768 => r.given <= Value32(r.length)
            /\ FitsIn(r.length, r.avail) =>
                  /\ r.after = r.before + 2 + 4 + Value32(r.length)
                  /\ r.given = Value32(r.length)

C9_Witness ==
    /\ \E k \in 1 .. Len(attrLog) :
          /\ attrLog[k].depth = 2
          /\ FitsIn(attrLog[k].length, attrLog[k].avail - 1)
    /\ \E k \in 1 .. Len(attrLog) :
          /\ FitsIn(attrLog[k].length, attrLog[k].avail)
          /\ attrLog[k].subread < Value32(attrLog[k].length)

(***************************************************************************)
(* C10: the nested attribute list of a Code payload never leads to         *)
(* decoding another Code payload, so parse_attributes is never active more *)
(* than two levels deep: no envelope is decoded at a depth beyond 2 (one   *)
(* is only when the nested list of a Code payload inside a Code payload    *)
(* is decoded).                                                            *)
(***************************************************************************)
C10_DepthAtMostTwo ==
    \A k \in 1 .. Len(attrLog) : attrLog[k].depth <= 2

====
